---- MODULE Spec2Model ----
(***************************************************************************)
(* Model of src/node/mem0/src/index.ts: the four MCP tools of the robot    *)
(* navigation memory server (store-robot-observation,                      *)
(* search-robot-observations, detect-environment-changes,                  *)
(* build-spatial-map) around the external memory service (memoryClient).   *)
(*                                                                         *)
(* Strings are TLA+ strings, handled character by character with Len,      *)
(* SubSeq and \o.  A tool invocation is a call slot; it advances at the    *)
(* handler's await points: the part of a handler between two awaits is     *)
(* one action, because the JavaScript event loop runs it to completion.    *)
(* The memory service stores the text it is given verbatim; a search       *)
(* returns any ranked list of distinct entries of the user.                *)
(***************************************************************************)
EXTENDS Integers, Sequences, FiniteSets, TLC

VARIABLES store, calls

vars == <<store, calls>>

(* ------------------------------ bounds ------------------------------- *)

\* Tool invocations in one behaviour.
MaxCalls == 2

\* Longest result list a search returns.
MaxResults == 3

(* ------------------------- program constants ------------------------- *)

ROBOT_USER_ID == "navigation-robot"

\* currentObservation.substring(0, 50)
PrefixLen == 50

\* previousObservations.slice(0, 2)
SliceEnd == 2

\* get_all({ ..., page: 1, page_size: 50 })
PageSize == 50

StoredText == "Robot observation stored successfully"

NoResultsText == "No relevant observations found"

MapErrorText == "Error building spatial map. Please try again."

NewTerritoryText(location) ==
    "No previous observations found at " \o location \o ". This is new territory."

(* ---------------------- JavaScript string helpers -------------------- *)

Min(a, b) == IF a < b THEN a ELSE b

\* s.substring(0, n)
substring(s, n) == SubSeq(s, 1, Min(n, Len(s)))

\* s.includes(t)
includes(s, t) ==
    \E i \in 1..(Len(s) - Len(t) + 1) : SubSeq(s, i, i + Len(t) - 1) = t

\* a ?? b in place of a || b: only undefined takes the default.
OrDefaultNullish(opt, d) ==
    IF opt = {} THEN d ELSE CHOOSE x \in opt : TRUE

\* a || b on an optional string: undefined ({}) and "" are both falsy.
OrDefault(opt, d) ==
    IF opt = {} THEN d
    ELSE LET v == CHOOSE x \in opt : TRUE IN IF v = "" THEN d ELSE v

UpperAlpha == "ABCDEFGHIJKLMNOPQRSTUVWXYZ"

LowerAlpha == "abcdefghijklmnopqrstuvwxyz"

\* The case folding of the regular expression's i flag, on one character.
Canonicalize(ch) ==
    IF \E k \in 1..Len(UpperAlpha) : SubSeq(UpperAlpha, k, k) = ch
    THEN LET k == CHOOSE j \in 1..Len(UpperAlpha) : SubSeq(UpperAlpha, j, j) = ch
         IN  SubSeq(LowerAlpha, k, k)
    ELSE ch

(* ----------------------------- formatting ---------------------------- *)

\* store-robot-observation: formattedObservation.  metadata is {} when the
\* argument is absent and {m} when present; each sub-field of m likewise.
FormatStoredObservation(observation, metadata, now) ==
    IF metadata = {} THEN observation
    ELSE LET m == CHOOSE x \in metadata : TRUE
         IN  "Observation: " \o observation
             \o "\nLocation: " \o OrDefault(m.location, "unknown")
             \o "\nTimestamp: " \o OrDefault(m.timestamp, now)
             \o "\nConditions: " \o OrDefault(m.environmentalConditions, "not specified")

\* detect-environment-changes: formattedObservation.
FormatDetectedObservation(currentObservation, location, timestamp) ==
    "Observation: " \o currentObservation
    \o "\nLocation: " \o location
    \o "\nTimestamp: " \o timestamp

\* detect-environment-changes: query.
DetectQuery(location) ==
    "What did I previously observe at location " \o location \o "?"

(* ------------------- search-robot-observations: rendering ------------ *)

RenderResult(result) ==
    "Observation: " \o result.memory \o "\nRelevance: " \o ToString(result.score) \o "\n---"

RECURSIVE JoinLines(_)
\* results.map(render).join("\n")
JoinLines(results) ==
    IF results = <<>> THEN ""
    ELSE IF Len(results) = 1 THEN RenderResult(results[1])
    ELSE RenderResult(results[1]) \o "\n" \o JoinLines(Tail(results))

\* formattedResults || "No relevant observations found"
SearchText(results) ==
    LET formattedResults == JoinLines(results)
    IN  IF formattedResults = "" THEN NoResultsText ELSE formattedResults

(* ---------------- detect-environment-changes: filter, slice ---------- *)

RECURSIVE FilterPrevious(_, _)
\* results.filter(r => !r.memory.includes(currentObservation.substring(0, 50)))
FilterPrevious(results, currentObservation) ==
    IF results = <<>> THEN <<>>
    ELSE LET rest == FilterPrevious(Tail(results), currentObservation)
         IN  IF includes(results[1].memory, substring(currentObservation, PrefixLen))
             THEN rest
             ELSE <<results[1]>> \o rest

\* The slice(0, 2) left out.
ReportedPreviousUnsliced(previousObservations) ==
    [i \in 1..Len(previousObservations) |->
        [observation |-> previousObservations[i].memory,
         relevance |-> previousObservations[i].score]]

\* previousObservations.slice(0, 2).map(r => ({observation, relevance}))
ReportedPrevious(previousObservations) ==
    LET kept == SubSeq(previousObservations, 1, Min(SliceEnd, Len(previousObservations)))
    IN  [i \in 1..Len(kept) |->
            [observation |-> kept[i].memory, relevance |-> kept[i].score]]

(* ---------------- build-spatial-map: location extraction ------------- *)

LocationTag == "location: "

\* /Location: ([^\n]+)/i matches at position i of memory.
MatchAt(memory, i) ==
    /\ i + Len(LocationTag) <= Len(memory)
    /\ \A k \in 1..Len(LocationTag) :
          Canonicalize(SubSeq(memory, i + k - 1, i + k - 1)) = SubSeq(LocationTag, k, k)
    /\ SubSeq(memory, i + Len(LocationTag), i + Len(LocationTag)) # "\n"

\* The last index of the greedy [^\n]+ that starts at j: the end of j's line.
LineEnd(memory, j) ==
    CHOOSE e \in j..Len(memory) :
        /\ \A k \in j..e : SubSeq(memory, k, k) # "\n"
        /\ e = Len(memory) \/ SubSeq(memory, e + 1, e + 1) = "\n"

\* memory.match(/Location: ([^\n]+)/i): <<>> for null, else <<capture group 1>>
\* of the leftmost match.
Match(memory) ==
    LET at == {i \in 1..Len(memory) : MatchAt(memory, i)}
    IN  IF at = {} THEN <<>>
        ELSE LET i == CHOOSE x \in at : \A y \in at : x <= y
                 j == i + Len(LocationTag)
             IN  <<SubSeq(memory, j, LineEnd(memory, j))>>

IsSpace(ch) == ch \in {" ", "\t", "\n", "\r"}

\* s.trim()
Trim(s) ==
    LET keep == {i \in 1..Len(s) : ~IsSpace(SubSeq(s, i, i))}
    IN  IF keep = {} THEN ""
        ELSE SubSeq(s, CHOOSE a \in keep : \A b \in keep : a <= b,
                       CHOOSE a \in keep : \A b \in keep : a >= b)

\* location = locationMatch[1].trim() in place of locationMatch[1].
ExtractLocationTrimmed(memory) ==
    LET locationMatch == Match(memory)
    IN  IF locationMatch # <<>> /\ locationMatch[1] # "" THEN Trim(locationMatch[1])
        ELSE "unknown"

\* let location = 'unknown'; if (locationMatch && locationMatch[1]) location = locationMatch[1]
ExtractLocation(memory) ==
    LET locationMatch == Match(memory)
    IN  IF locationMatch # <<>> /\ locationMatch[1] # "" THEN locationMatch[1]
        ELSE "unknown"

(* -------------------- build-spatial-map: grouping -------------------- *)

\* Property names every object literal inherits from Object.prototype:
\* locationMap[name] is truthy for them before any assignment.
ObjectPrototypeKeys ==
    {"constructor", "__proto__", "hasOwnProperty", "isPrototypeOf",
     "propertyIsEnumerable", "toLocaleString", "toString", "valueOf",
     "__defineGetter__", "__defineSetter__", "__lookupGetter__", "__lookupSetter__"}

HasOwn(locationMap, key) ==
    \E i \in 1..Len(locationMap) : locationMap[i].key = key

Digits == "0123456789"

\* The value of the digit ch.
DigitValue(ch) == (CHOOSE k \in 1..Len(Digits) : SubSeq(Digits, k, k) = ch) - 1

\* a < b for canonical decimal numerals: by length, then digit by digit.
NumeralLess(a, b) ==
    \/ Len(a) < Len(b)
    \/ /\ Len(a) = Len(b)
       /\ \E i \in 1..Len(a) :
             /\ SubSeq(a, 1, i - 1) = SubSeq(b, 1, i - 1)
             /\ DigitValue(SubSeq(a, i, i)) < DigitValue(SubSeq(b, i, i))

\* The largest array index, 2^32 - 2.
MaxArrayIndex == "4294967294"

\* key is an array index: the canonical numeral of an integer in 0..2^32 - 2.
\* An object keeps such keys before all others, in ascending numeric order.
IsArrayIndex(key) ==
    /\ Len(key) >= 1
    /\ Len(key) <= Len(MaxArrayIndex)
    /\ \A i \in 1..Len(key) : includes(Digits, SubSeq(key, i, i))
    /\ Len(key) = 1 \/ SubSeq(key, 1, 1) # "0"
    /\ ~NumeralLess(MaxArrayIndex, key)

\* locationMap[location] = [memory] for a new key: the own properties in the
\* order of Object.keys and JSON.stringify, array indexes ascending first, the
\* other keys in insertion order after them.
DefineKey(locationMap, location, memory) ==
    LET entry == [key |-> location, items |-> <<memory>>]
    IN  IF IsArrayIndex(location)
        THEN LET n == Cardinality({i \in 1..Len(locationMap) :
                                     /\ IsArrayIndex(locationMap[i].key)
                                     /\ NumeralLess(locationMap[i].key, location)})
             IN  SubSeq(locationMap, 1, n) \o <<entry>>
                 \o SubSeq(locationMap, n + 1, Len(locationMap))
        ELSE Append(locationMap, entry)

\* One iteration of allMemories.results.forEach.  locationMap is the object's
\* own properties in the order of Object.keys.  threw: the iteration raised
\* TypeError (locationMap[location] is an inherited non-array, so .push is
\* undefined).
GroupOne(locationMap, memory) ==
    LET location == ExtractLocation(memory)
    IN  IF HasOwn(locationMap, location)
        THEN [threw |-> FALSE,
              map |-> [i \in 1..Len(locationMap) |->
                         IF locationMap[i].key = location
                         THEN [key |-> location,
                               items |-> Append(locationMap[i].items, memory)]
                         ELSE locationMap[i]]]
        ELSE IF location \in ObjectPrototypeKeys
        THEN [threw |-> TRUE, map |-> locationMap]
        ELSE [threw |-> FALSE, map |-> DefineKey(locationMap, location, memory)]

RECURSIVE GroupAll(_, _)
\* allMemories.results.forEach(...), from locationMap on the remaining results.
GroupAll(locationMap, results) ==
    IF results = <<>> THEN [threw |-> FALSE, map |-> locationMap]
    ELSE LET one == GroupOne(locationMap, results[1].memory)
         IN  IF one.threw THEN one ELSE GroupAll(one.map, Tail(results))

(* ------------------------------ inputs ------------------------------- *)

Absent == {}

Meta(location, timestamp, environmentalConditions) ==
    [location |-> location, timestamp |-> timestamp,
     environmentalConditions |-> environmentalConditions]

\* 50 characters.
SharedPrefix == "The corridor door next to the charging station is "

\* new Date().toISOString()
Times == {"2025-01-01T00:00:00.000Z"}

Queries == {"Where is the cup?"}

\* Inputs of the concurrent specification Spec.
Users == {ROBOT_USER_ID}

Observations == {"cup"}

\* The metadata argument: Absent, or {m} with each sub-field Absent or {value}.
Metadatas ==
    {Absent,
     {Meta({"dock"}, {"2024-12-31T23:59:59.000Z"}, {"dim"})}}

CurrentObservations == {"sign says LOCATION: den"}

Locations == {"lab"}

\* Inputs of the one-call specification SpecOneCall.
AnyUsers == {ROBOT_USER_ID, "scout"}

AnyObservations == {"cup", ""}

OptionalStrings(values) == {Absent} \cup {{v} : v \in values}

AnyMetadatas ==
    {Absent} \cup
    {{Meta(l, t, e)} : l \in OptionalStrings({"", "lab", "lab "}),
                       t \in OptionalStrings({"", "2024-12-31T23:59:59.000Z"}),
                       e \in OptionalStrings({"", "dim"})}

AnyCurrentObservations ==
    {"cup", "", "sign says LOCATION: den", SharedPrefix \o "open"}

AnyLocations == {"lab", ""}

(* ------------------------------- state ------------------------------- *)

Calls == 1..MaxCalls

NoResult == [kind |-> "none", text |-> "", value |-> <<>>]

TextResult(text) == [kind |-> "text", text |-> text, value |-> <<>>]

\* JSON.stringify(value, null, 2): the payload is kept as the value serialised.
JsonResult(value) == [kind |-> "json", text |-> "", value |-> value]

\* The handler rejected: the error reached the caller.
ThrownResult == [kind |-> "thrown", text |-> "", value |-> <<>>]

IdleCall ==
    [tool |-> "none", pc |-> "idle", userId |-> "", observation |-> "",
     metadata |-> Absent, location |-> "", timestamp |-> "", content |-> "",
     query |-> "", ops |-> <<>>, added |-> 0, before |-> 0,
     results |-> <<>>, listing |-> <<>>, result |-> NoResult]

\* An entry of the memory service: the text as given to add; tool is the
\* tool that stored it and tag the location its caller supplied (Absent when
\* it supplied none).
Entry(userId, memory, tool, tag) ==
    [user_id |-> userId, memory |-> memory, tool |-> tool, tag |-> tag]

Init ==
    /\ store = <<>>
    /\ calls = [c \in Calls |-> IdleCall]

\* Entries earlier sessions may have left, in the order stored.
Earlier ==
    <<Entry(ROBOT_USER_ID,
            FormatStoredObservation("shelf", {Meta({"10"}, {"2024-12-30T08:00:00.000Z"}, {"dim"})}, ""),
            "store", {"10"}),
      Entry(ROBOT_USER_ID,
            FormatStoredObservation("cup", {Meta({"10 "}, {"2024-12-30T08:30:00.000Z"}, Absent)}, ""),
            "store", {"10 "}),
      Entry(ROBOT_USER_ID,
            FormatDetectedObservation(SharedPrefix \o "shut", "9", "2024-12-30T09:00:00.000Z"),
            "detect", {"9"}),
      Entry(ROBOT_USER_ID,
            FormatStoredObservation("Location: \nsign says LOCATION: den", Absent, ""),
            "store", Absent),
      Entry(ROBOT_USER_ID,
            FormatStoredObservation("crate", {Meta({"constructor"}, {"2024-12-30T10:00:00.000Z"}, Absent)}, ""),
            "store", {"constructor"}),
      Entry("scout",
            FormatStoredObservation("crate", Absent, ""),
            "store", Absent)>>

\* Earlier restricted to the entries whose index is in keep.
Kept(keep) ==
    SelectSeq([i \in 1..Len(Earlier) |-> i], LAMBDA i : i \in keep)

InitOneCall ==
    /\ \E keep \in SUBSET (1..Len(Earlier)) :
          store = [k \in 1..Len(Kept(keep)) |-> Earlier[Kept(keep)[k]]]
    /\ calls = [c \in Calls |-> IdleCall]

\* The next free call slot.
Free(c) ==
    /\ calls[c].pc = "idle"
    /\ \A d \in Calls : d < c => calls[d].pc # "idle"

(* -------------------------- memory service --------------------------- *)

\* The location a call tags its observation with.
CallTag(call) ==
    IF call.tool = "detect" THEN {call.location}
    ELSE IF call.metadata = Absent THEN Absent
    ELSE (CHOOSE m \in call.metadata : TRUE).location

\* The indexes of userId's entries, in the order stored.
UserEntries(userId) ==
    SelectSeq([i \in 1..Len(store) |-> i], LAMBDA i : store[i].user_id = userId)

\* memoryClient.search(query, {user_id}): any ranked list of at most
\* MaxResults distinct entries of the user, the best first.
RankedLists(userId) ==
    LET ids  == {i \in 1..Len(store) : store[i].user_id = userId}
        seqs == UNION {{q \in [1..n -> ids] :
                          \A i, j \in 1..n : i # j => q[i] # q[j]} : n \in 0..MaxResults}
    IN  {[k \in 1..Len(q) |->
            [id |-> q[k], memory |-> store[q[k]].memory, score |-> Len(q) - k + 1]] : q \in seqs}

\* memoryClient.get_all({user_id, page: 1, page_size: 50}).results
FirstPage(userId) ==
    LET idx  == UserEntries(userId)
        page == SubSeq(idx, 1, Min(PageSize, Len(idx)))
    IN  [k \in 1..Len(page) |-> [id |-> page[k], memory |-> store[page[k]].memory]]

(* ------------------------------ helpers ------------------------------ *)

\* addMemory without its catch.
addMemoryRethrows(settled) ==
    IF settled = "rejected" THEN "thrown" ELSE "returned"

\* addMemory: how the call ends for its caller once memoryClient.add has
\* settled ("resolved" or "rejected"): the catch logs the error and returns.
addMemory(settled) ==
    IF settled = "rejected" THEN "returned" ELSE "returned"

\* searchMemories without its catch.
searchMemoriesRethrows(settled, results) ==
    IF settled = "rejected" THEN [threw |-> TRUE, value |-> <<>>]
    ELSE [threw |-> FALSE, value |-> results]

\* searchMemories: the value returned once memoryClient.search has settled;
\* the catch logs the error and returns [].
searchMemories(settled, results) ==
    IF settled = "rejected" THEN [threw |-> FALSE, value |-> <<>>]
    ELSE [threw |-> FALSE, value |-> results]

Log(call, event) == [call EXCEPT !.ops = Append(@, event)]

Finish(call, result) == [call EXCEPT !.pc = "done", !.result = result]

(* ------------------ handlers: the code after each await -------------- *)

\* store-robot-observation after await addMemory(...).
StoreContinue(call, settled) ==
    IF addMemory(settled) = "thrown" THEN Finish(call, ThrownResult)
    ELSE Finish(call, TextResult(StoredText))

\* detect-environment-changes giving up when the add failed.
DetectContinueAddGivesUp(call, settled) ==
    IF settled = "rejected"
    THEN [call EXCEPT !.pc = "done",
                      !.result = [kind |-> "text",
                                  text |-> NewTerritoryText(call.location),
                                  value |-> <<>>]]
    ELSE [call EXCEPT !.pc = "search", !.ops = Append(@, "search"),
                      !.query = DetectQuery(call.location)]

\* detect-environment-changes after await addMemory(...): build the query and
\* call searchMemories.
DetectContinueAdd(call, settled) ==
    IF addMemory(settled) = "thrown" THEN Finish(call, ThrownResult)
    ELSE [Log(call, "search") EXCEPT !.pc = "search", !.query = DetectQuery(call.location)]

\* detect-environment-changes after await searchMemories(...).
DetectContinueSearch(call, settled, found) ==
    LET got == searchMemories(settled, found)
        previousObservations == FilterPrevious(got.value, call.observation)
    IN  IF got.threw THEN Finish(call, ThrownResult)
        ELSE IF Len(previousObservations) = 0
        THEN Finish(call, TextResult(NewTerritoryText(call.location)))
        ELSE Finish(call,
                    JsonResult([currentObservation |-> call.observation,
                                location |-> call.location,
                                timestamp |-> call.timestamp,
                                previousObservations |->
                                    ReportedPrevious(previousObservations)]))

\* search-robot-observations after await searchMemories(...).
SearchContinue(call, settled, found) ==
    LET got == searchMemories(settled, found)
    IN  IF got.threw THEN Finish(call, ThrownResult)
        ELSE Finish(call, TextResult(SearchText(got.value)))

\* build-spatial-map with the forEach outside the try: the groups built before
\* the failing entry are returned.
MapContinuePartial(call, settled, listing) ==
    IF settled = "rejected"
    THEN [call EXCEPT !.pc = "done",
                      !.result = [kind |-> "text", text |-> MapErrorText, value |-> <<>>]]
    ELSE LET grouped == GroupAll(<<>>, listing)
         IN  [call EXCEPT !.pc = "done",
                          !.result = [kind |-> "json", text |-> "",
                                      value |-> [spatialMap |-> grouped.map,
                                                 locationCount |-> Len(grouped.map),
                                                 totalObservations |-> Len(listing)]]]

\* build-spatial-map after await memoryClient.get_all(...), inside its try.
MapContinue(call, settled, listing) ==
    IF settled = "rejected" THEN Finish(call, TextResult(MapErrorText))
    ELSE LET grouped == GroupAll(<<>>, listing)
         IN  IF grouped.threw THEN Finish(call, TextResult(MapErrorText))
             ELSE Finish(call,
                         JsonResult([spatialMap |-> grouped.map,
                                     locationCount |-> Len(grouped.map),
                                     totalObservations |-> Len(listing)]))

(* ------------------------------ actions ------------------------------ *)

\* store-robot-observation is invoked: format, then await addMemory.
StoreRobotObservation(c, observation, metadata, userId, now) ==
    /\ Free(c)
    /\ calls' = [calls EXCEPT ![c] =
                    [IdleCall EXCEPT !.tool = "store", !.pc = "add",
                                     !.userId = userId,
                                     !.observation = observation,
                                     !.metadata = metadata,
                                     !.content = FormatStoredObservation(observation, metadata, now),
                                     !.ops = <<"add">>]]
    /\ UNCHANGED store

\* search-robot-observations is invoked: await searchMemories.
SearchRobotObservations(c, query, userId) ==
    /\ Free(c)
    /\ calls' = [calls EXCEPT ![c] =
                    [IdleCall EXCEPT !.tool = "search", !.pc = "search",
                                     !.userId = userId, !.query = query,
                                     !.ops = <<"search">>]]
    /\ UNCHANGED store

\* detect-environment-changes is invoked: timestamp, format, await addMemory.
DetectEnvironmentChanges(c, currentObservation, location, userId, now) ==
    /\ Free(c)
    /\ calls' = [calls EXCEPT ![c] =
                    [IdleCall EXCEPT !.tool = "detect", !.pc = "add",
                                     !.userId = userId,
                                     !.observation = currentObservation,
                                     !.location = location,
                                     !.timestamp = now,
                                     !.content = FormatDetectedObservation(currentObservation, location, now),
                                     !.ops = <<"add">>]]
    /\ UNCHANGED store

\* build-spatial-map is invoked: await memoryClient.get_all.
BuildSpatialMap(c, userId) ==
    /\ Free(c)
    /\ calls' = [calls EXCEPT ![c] =
                    [IdleCall EXCEPT !.tool = "map", !.pc = "get_all",
                                     !.userId = userId, !.ops = <<"get_all">>]]
    /\ UNCHANGED store

\* The handler of call, resumed after its add settled.
AfterAdd(call, settled) ==
    IF call.tool = "store" THEN StoreContinue(call, settled)
    ELSE DetectContinueAdd(call, settled)

\* memoryClient.add resolves: the service has stored the content.
AddResolves(c) ==
    /\ calls[c].pc = "add"
    /\ store' = Append(store, Entry(calls[c].userId, calls[c].content, calls[c].tool, CallTag(calls[c])))
    /\ calls' = [calls EXCEPT ![c] =
                    AfterAdd([Log(calls[c], "add:resolved") EXCEPT
                                  !.added = Len(store) + 1, !.before = Len(store)],
                             "resolved")]

\* memoryClient.add rejects: nothing is stored.
AddRejects(c) ==
    /\ calls[c].pc = "add"
    /\ calls' = [calls EXCEPT ![c] =
                    AfterAdd([Log(calls[c], "add:rejected") EXCEPT !.before = Len(store)],
                             "rejected")]
    /\ UNCHANGED store

\* The handler of call, resumed after its search settled.
AfterSearch(call, settled, found) ==
    IF call.tool = "search" THEN SearchContinue(call, settled, found)
    ELSE DetectContinueSearch(call, settled, found)

\* memoryClient.search resolves with a ranked list.
SearchResolves(c, found) ==
    /\ calls[c].pc = "search"
    /\ calls' = [calls EXCEPT ![c] =
                    AfterSearch([Log(calls[c], "search:resolved") EXCEPT !.results = found],
                                "resolved", found)]
    /\ UNCHANGED store

\* memoryClient.search rejects.
SearchRejects(c) ==
    /\ calls[c].pc = "search"
    /\ calls' = [calls EXCEPT ![c] =
                    AfterSearch(Log(calls[c], "search:rejected"), "rejected", <<>>)]
    /\ UNCHANGED store

\* memoryClient.get_all resolves with the first page of the user's entries.
GetAllResolves(c) ==
    /\ calls[c].pc = "get_all"
    /\ LET listing == FirstPage(calls[c].userId)
       IN  calls' = [calls EXCEPT ![c] =
                        MapContinue([Log(calls[c], "get_all:resolved") EXCEPT
                                         !.listing = listing],
                                    "resolved", listing)]
    /\ UNCHANGED store

\* memoryClient.get_all rejects.
GetAllRejects(c) ==
    /\ calls[c].pc = "get_all"
    /\ calls' = [calls EXCEPT ![c] =
                    MapContinue(Log(calls[c], "get_all:rejected"), "rejected", <<>>)]
    /\ UNCHANGED store

\* The result of call c is sent to the caller; the call is over.
Return(c) ==
    /\ calls[c].pc = "done"
    /\ calls' = [calls EXCEPT ![c] = [IdleCall EXCEPT !.pc = "returned"]]
    /\ UNCHANGED store

Next ==
    \/ \E c \in Calls, o \in Observations, m \in Metadatas, u \in Users, t \in Times :
          StoreRobotObservation(c, o, m, u, t)
    \/ \E c \in Calls, q \in Queries, u \in Users : SearchRobotObservations(c, q, u)
    \/ \E c \in Calls, o \in CurrentObservations, l \in Locations, u \in Users, t \in Times :
          DetectEnvironmentChanges(c, o, l, u, t)
    \/ \E c \in Calls, u \in Users : BuildSpatialMap(c, u)
    \/ \E c \in Calls : AddResolves(c)
    \/ \E c \in Calls : AddRejects(c)
    \/ \E c \in Calls : \E found \in RankedLists(calls[c].userId) : SearchResolves(c, found)
    \/ \E c \in Calls : SearchRejects(c)
    \/ \E c \in Calls : GetAllResolves(c)
    \/ \E c \in Calls : GetAllRejects(c)
    \/ \E c \in Calls : Return(c)

Spec == Init /\ [][Next]_vars

\* One tool invocation, with any arguments, on any earlier content of the
\* memory service.
NextOneCall ==
    \/ \E o \in AnyObservations, m \in AnyMetadatas, u \in AnyUsers, t \in Times :
          StoreRobotObservation(1, o, m, u, t)
    \/ \E q \in Queries, u \in AnyUsers : SearchRobotObservations(1, q, u)
    \/ \E o \in AnyCurrentObservations, l \in AnyLocations, u \in AnyUsers, t \in Times :
          DetectEnvironmentChanges(1, o, l, u, t)
    \/ \E u \in AnyUsers : BuildSpatialMap(1, u)
    \/ AddResolves(1)
    \/ AddRejects(1)
    \/ \E found \in RankedLists(calls[1].userId) : SearchResolves(1, found)
    \/ SearchRejects(1)
    \/ GetAllResolves(1)
    \/ GetAllRejects(1)
    \/ Return(1)

SpecOneCall == InitOneCall /\ [][NextOneCall]_vars

(* ------------------------------- claims ------------------------------ *)

Last(ops) == ops[Len(ops)]

Done(c, tool) == calls[c].tool = tool /\ calls[c].pc = "done"

IsText(result, text) == result.kind = "text" /\ result.text = text

\* C1: every store-robot-observation call whose add has settled, resolved or
\* rejected, has returned normally with the text "Robot observation stored
\* successfully".
C1_StoreAlwaysReportsSuccess ==
    \A c \in Calls :
        (calls[c].tool = "store" /\ Len(calls[c].ops) >= 2)
        => /\ calls[c].ops \in {<<"add", "add:resolved">>, <<"add", "add:rejected">>}
           /\ calls[c].pc = "done"
           /\ IsText(calls[c].result, StoredText)

\* A store call whose add was rejected has finished.
C1_Witness ==
    \E c \in Calls : Done(c, "store") /\ Last(calls[c].ops) = "add:rejected"

\* C2: a search-robot-observations call whose search rejected ends, without
\* throwing, with exactly "No relevant observations found", as does a call
\* whose search resolved with no result.
C2_SearchFailureLooksEmpty ==
    \A c \in Calls :
        Done(c, "search")
        => /\ Last(calls[c].ops) = "search:rejected"
                => IsText(calls[c].result, "No relevant observations found")
           /\ (Last(calls[c].ops) = "search:resolved" /\ calls[c].results = <<>>)
                => IsText(calls[c].result, "No relevant observations found")
           /\ (Last(calls[c].ops) = "search:resolved" /\ calls[c].results # <<>>)
                => ~IsText(calls[c].result, "No relevant observations found")

\* A search call whose search was rejected has finished.
C2_Witness ==
    \E c \in Calls : Done(c, "search") /\ Last(calls[c].ops) = "search:rejected"

\* The first 50 characters of currentObservation, the whole of a shorter one.
C3_Prefix(currentObservation) ==
    IF Len(currentObservation) < 50 THEN currentObservation
    ELSE SubSeq(currentObservation, 1, 50)

\* R without the results whose memory contains the prefix, in R's order.
C3_F(c) ==
    SelectSeq(calls[c].results,
              LAMBDA r : ~includes(r.memory, C3_Prefix(calls[c].observation)))

\* C3: in a finished detect-environment-changes call with result list R, the
\* report's previousObservations are the first min(2, |F|) elements of F (R
\* without the results containing the prefix), in R's order; with |F| >= 2 they
\* are exactly 2, none contains the prefix, and with F empty the report is the
\* new-territory text.
C3_FilterThenTruncate ==
    \A c \in Calls :
        Done(c, "detect")
        => LET F == C3_F(c)
               n == IF Len(F) < 2 THEN Len(F) ELSE 2
           IN  IF F = <<>>
               THEN IsText(calls[c].result, NewTerritoryText(calls[c].location))
               ELSE /\ calls[c].result.kind = "json"
                    /\ LET reported == calls[c].result.value.previousObservations
                       IN  /\ Len(reported) = n
                           /\ Len(F) >= 2 => Len(reported) = 2
                           /\ \A i \in 1..n :
                                 /\ reported[i].observation = F[i].memory
                                 /\ reported[i].relevance = F[i].score
                                 /\ ~includes(reported[i].observation,
                                              C3_Prefix(calls[c].observation))

\* A detect call with an observation longer than 50 characters was given three
\* results, dropped the one sharing its first 50 characters, and reported two.
C3_Witness ==
    \E c \in Calls :
        /\ Done(c, "detect")
        /\ Len(calls[c].observation) > 50
        /\ Len(calls[c].results) = 3
        /\ Len(C3_F(c)) = 2
        /\ calls[c].result.kind = "json"
        /\ Len(calls[c].result.value.previousObservations) = 2

\* C4: every entry a finished detect-environment-changes call reports was
\* stored for its userId before the call stored its own observation, and was
\* stored with the call's location.
C4_PreviousAreEarlierSameLocation ==
    \A c \in Calls :
        (Done(c, "detect") /\ calls[c].result.kind = "json")
        => \A k \in 1..Len(calls[c].result.value.previousObservations) :
              \E i \in 1..Len(store) :
                  /\ store[i].memory = calls[c].result.value.previousObservations[k].observation
                  /\ store[i].user_id = calls[c].userId
                  /\ i <= calls[c].before
                  /\ store[i].tag = {calls[c].location}

\* The value of a present sub-field.
The(opt) == CHOOSE x \in opt : TRUE

\* The four-line block with the given values on its metadata lines.
C5_Block(observation, location, timestamp, conditions) ==
    "Observation: " \o observation \o "\nLocation: " \o location
    \o "\nTimestamp: " \o timestamp \o "\nConditions: " \o conditions

\* C5 as claimed: the text a store-robot-observation call with metadata sends
\* is the four-line block, each metadata line carrying the sub-field's value
\* whenever it is present, and the default only when it is absent.
C5_PresentValueIsCarried ==
    \A c \in Calls :
        (calls[c].tool = "store" /\ calls[c].metadata # Absent)
        => LET m == The(calls[c].metadata)
           IN  \E now \in Times :
                  calls[c].content =
                      C5_Block(calls[c].observation,
                               IF m.location = Absent THEN "unknown" ELSE The(m.location),
                               IF m.timestamp = Absent THEN now ELSE The(m.timestamp),
                               IF m.environmentalConditions = Absent THEN "not specified"
                               ELSE The(m.environmentalConditions))

\* C5 amended: each metadata line carries the sub-field's value whenever it is
\* present and not the empty string, and the default when it is absent or the
\* empty string.
C5_NonEmptyValueIsCarried ==
    \A c \in Calls :
        (calls[c].tool = "store" /\ calls[c].metadata # Absent)
        => LET m == The(calls[c].metadata)
           IN  \E now \in Times :
                  calls[c].content =
                      C5_Block(calls[c].observation,
                               IF m.location \in {Absent, {""}} THEN "unknown"
                               ELSE The(m.location),
                               IF m.timestamp \in {Absent, {""}} THEN now
                               ELSE The(m.timestamp),
                               IF m.environmentalConditions \in {Absent, {""}}
                               THEN "not specified"
                               ELSE The(m.environmentalConditions))

\* A store call was given an empty location, a timestamp and no conditions, and
\* has finished.
C5_Witness ==
    \E c \in Calls :
        /\ Done(c, "store")
        /\ calls[c].metadata # Absent
        /\ The(calls[c].metadata).location = {""}
        /\ The(calls[c].metadata).timestamp \notin {Absent, {""}}
        /\ The(calls[c].metadata).environmentalConditions = Absent

\* "Location: ", in any case, is at position i of memory.
C6_TagAt(memory, i) ==
    /\ i + 9 <= Len(memory)
    /\ \A k \in 0..9 :
          Canonicalize(SubSeq(memory, i + k, i + k)) = SubSeq("location: ", k + 1, k + 1)

\* memory from position j to the end of j's line.
C6_RestOfLine(memory, j) ==
    LET breaks == {x \in j..Len(memory) : SubSeq(memory, x, x) = "\n"}
    IN  IF breaks = {} THEN SubSeq(memory, j, Len(memory))
        ELSE SubSeq(memory, j, (CHOOSE x \in breaks : \A y \in breaks : x <= y) - 1)

\* The key as claimed: the rest of the line after the first "Location: ",
\* trimmed; "unknown" without a match.
C6_ClaimedKey(memory) ==
    LET at == {i \in 1..Len(memory) : C6_TagAt(memory, i)}
    IN  IF at = {} THEN "unknown"
        ELSE Trim(C6_RestOfLine(memory, (CHOOSE x \in at : \A y \in at : x <= y) + 10))

\* The key as amended: the rest of the line after the first "Location: " that
\* a character other than a line break follows, as it stands; "unknown"
\* without such a match.
C6_AmendedKey(memory) ==
    LET at == {i \in 1..Len(memory) :
                  /\ C6_TagAt(memory, i)
                  /\ i + 10 <= Len(memory)
                  /\ SubSeq(memory, i + 10, i + 10) # "\n"}
    IN  IF at = {} THEN "unknown"
        ELSE C6_RestOfLine(memory, (CHOOSE x \in at : \A y \in at : x <= y) + 10)

\* The groups of a finished build-spatial-map call that returned a map.
Groups(c) == calls[c].result.value.spatialMap

Mapped(c) == Done(c, "map") /\ calls[c].result.kind = "json"

\* C6 as claimed: every entry of a returned map is grouped under its trimmed
\* key, so entries whose Location lines differ only in surrounding whitespace
\* share a group.
C6_KeyIsTrimmed ==
    \A c \in Calls :
        Mapped(c)
        => \A g \in 1..Len(Groups(c)) :
              \A j \in 1..Len(Groups(c)[g].items) :
                  Groups(c)[g].key = C6_ClaimedKey(Groups(c)[g].items[j])

\* C6 amended: every entry of a returned map is grouped under the text that
\* follows the first case-insensitive "Location: " followed by a character
\* other than a line break, up to the end of the line and not trimmed
\* ("unknown" without such a match); no two groups share a key, so entries
\* whose Location lines differ in surrounding whitespace are in different
\* groups.
C6_KeyIsUntrimmed ==
    \A c \in Calls :
        Mapped(c)
        => /\ \A g \in 1..Len(Groups(c)) :
                 \A j \in 1..Len(Groups(c)[g].items) :
                     Groups(c)[g].key = C6_AmendedKey(Groups(c)[g].items[j])
           /\ \A g, h \in 1..Len(Groups(c)) :
                 g # h => Groups(c)[g].key # Groups(c)[h].key
           /\ \A k \in 1..Len(calls[c].listing) :
                 \E g \in 1..Len(Groups(c)) :
                     /\ Groups(c)[g].key = C6_AmendedKey(calls[c].listing[k].memory)
                     /\ \E j \in 1..Len(Groups(c)[g].items) :
                           Groups(c)[g].items[j] = calls[c].listing[k].memory

\* A returned map has a group "10", a group "10 " and a group "den", taken
\* from an upper-case LOCATION: tag that follows a "Location: " with nothing
\* after it on its line.
C6_Witness ==
    \E c \in Calls :
        /\ Mapped(c)
        /\ \E g, h, d \in 1..Len(Groups(c)) :
              /\ Groups(c)[g].key = "10"
              /\ Groups(c)[h].key = "10 "
              /\ Groups(c)[d].key = "den"

\* The memories of listing whose extracted key is key, in the listing's order.
C7_Under(listing, key) ==
    LET at == SelectSeq([k \in 1..Len(listing) |-> k],
                        LAMBDA k : ExtractLocation(listing[k].memory) = key)
    IN  [n \in 1..Len(at) |-> listing[at[n]].memory]

\* C7: whenever get_all returned a listing, build-spatial-map returns a map
\* whose groups are exactly the listed entries under their extracted keys, each
\* once; locationCount is the number of distinct keys and totalObservations the
\* number of listed entries.
C7_EveryListingIsGrouped ==
    \A c \in Calls :
        (Done(c, "map") /\ Last(calls[c].ops) = "get_all:resolved")
        => /\ calls[c].result.kind = "json"
           /\ LET listing == calls[c].listing
                  keys == {ExtractLocation(listing[k].memory) : k \in 1..Len(listing)}
              IN  /\ {Groups(c)[g].key : g \in 1..Len(Groups(c))} = keys
                  /\ Len(Groups(c)) = Cardinality(keys)
                  /\ \A g \in 1..Len(Groups(c)) :
                        Groups(c)[g].items = C7_Under(listing, Groups(c)[g].key)
                  /\ calls[c].result.value.locationCount = Cardinality(keys)
                  /\ calls[c].result.value.totalObservations = Len(listing)

RECURSIVE C8_Sizes(_)
\* The number of entries in the groups of a map.
C8_Sizes(groups) ==
    IF groups = <<>> THEN 0 ELSE Len(groups[1].items) + C8_Sizes(Tail(groups))

\* The grouping fails on listing: an entry's key names an inherited property.
C8_GroupingFails(listing) ==
    \E k \in 1..Len(listing) : C6_AmendedKey(listing[k].memory) \in ObjectPrototypeKeys

\* C8: a finished build-spatial-map call whose get_all rejected, or whose
\* grouping failed, returned "Error building spatial map. Please try again.";
\* it never threw, and a map it returned holds every listed entry.
C8_FailureGivesGenericError ==
    \A c \in Calls :
        Done(c, "map")
        => /\ calls[c].result.kind \in {"text", "json"}
           /\ Last(calls[c].ops) = "get_all:rejected"
                => IsText(calls[c].result, "Error building spatial map. Please try again.")
           /\ C8_GroupingFails(calls[c].listing)
                => IsText(calls[c].result, "Error building spatial map. Please try again.")
           /\ calls[c].result.kind = "text"
                => IsText(calls[c].result, "Error building spatial map. Please try again.")
           /\ calls[c].result.kind = "json"
                => /\ C8_Sizes(Groups(c)) = Len(calls[c].listing)
                   /\ calls[c].result.value.totalObservations = Len(calls[c].listing)

\* get_all returned a listing whose third entry makes the grouping fail after
\* two entries were grouped, and the call has finished.
C8_Witness ==
    \E c \in Calls :
        /\ Done(c, "map")
        /\ Last(calls[c].ops) = "get_all:resolved"
        /\ Len(calls[c].listing) >= 3
        /\ C6_AmendedKey(calls[c].listing[3].memory) \in ObjectPrototypeKeys
        /\ ~C8_GroupingFails(SubSeq(calls[c].listing, 1, 2))

\* C9: a detect-environment-changes call issues one add, then, once the add
\* has settled and whether it resolved or rejected, one search, and nothing
\* else; it is finished exactly when the search has settled, and a rejected
\* search gives the new-territory text.
C9_OneAddThenOneSearch ==
    \A c \in Calls :
        calls[c].tool = "detect"
        => /\ \/ calls[c].pc = "add" /\ calls[c].ops = <<"add">>
              \/ /\ calls[c].pc = "search"
                 /\ calls[c].ops \in {<<"add", a, "search">> :
                                        a \in {"add:resolved", "add:rejected"}}
              \/ /\ calls[c].pc = "done"
                 /\ calls[c].ops \in {<<"add", a, "search", r>> :
                                        a \in {"add:resolved", "add:rejected"},
                                        r \in {"search:resolved", "search:rejected"}}
           /\ (calls[c].pc = "done" /\ Last(calls[c].ops) = "search:rejected")
                => IsText(calls[c].result,
                          "No previous observations found at " \o calls[c].location
                          \o ". This is new territory.")

\* A detect call whose add and whose search were both rejected has finished.
C9_Witness ==
    \E c \in Calls :
        /\ Done(c, "detect")
        /\ calls[c].ops = <<"add", "add:rejected", "search", "search:rejected">>

\* C10: in a map returned by build-spatial-map, every listed entry that
\* detect-environment-changes stored is grouped under the location that call
\* was given.
C10_DetectedEntryUnderItsLocation ==
    \A c \in Calls :
        Mapped(c)
        => \A k \in 1..Len(calls[c].listing) :
              LET e == store[calls[c].listing[k].id]
              IN  e.tool = "detect"
                  => \E g \in 1..Len(Groups(c)) :
                        /\ {Groups(c)[g].key} = e.tag
                        /\ \E j \in 1..Len(Groups(c)[g].items) :
                              Groups(c)[g].items[j] = e.memory

====
